---- MODULE Spec2Model ----
(***************************************************************************)
(* AggregateQueryBuilder (src/src/aggregateQueryBuilder.ts): a fluent      *)
(* builder of MongoDB aggregation pipelines.  The state of one builder is  *)
(* its main pipeline, its table of named sub-pipelines and a counter.      *)
(*                                                                         *)
(* The table `subPipeline` is a plain JavaScript object ({}), so a read    *)
(* this.subPipeline[name] finds the builder's own entry or, failing that,  *)
(* a member inherited from Object.prototype ("constructor", ...), which is *)
(* a truthy value that is not an array.  JavaScript values are modelled as *)
(* tagged records: [tag |-> "array", stages |-> <<...>>] for a stage list, *)
(* [tag |-> "inherited"] for an Object.prototype member, "undefined" and   *)
(* "null" for the two absent values.                                       *)
(***************************************************************************)
EXTENDS Integers, Sequences, FiniteSets, TLC

VARIABLES pipeline, subPipeline, subPipelineCounter, last, calls, onlyMain, produced,
          returned, snapshot, synthesized, heap, instances, tasks, refs

vars == <<pipeline, subPipeline, subPipelineCounter, last, calls, onlyMain, produced,
          returned, snapshot, synthesized, heap, instances, tasks, refs>>

(***************************************************************************)
(* Bounds of the model and the small sets the inputs are drawn from.       *)
(***************************************************************************)
\* Spec: most calls made on the builder.
MaxCalls == 2
\* SpecRegistry: most stages (those embedded in conditional stages included)
\* the builder holds.
MaxStages == 4
\* Largest counter value generateDefaultSubPipelineName is applied to.
MaxCounter == 12

\* The absent optional argument (JavaScript undefined).
UNDEFINED == "<undefined>"
\* Ordinary sub-pipeline names.
PlainNames == {"a", "b", "c"}
\* The empty string: a string, but falsy.
EmptyName == ""
\* Names every plain object inherits from Object.prototype.
ObjectPrototypeKeys == {"constructor"}
\* The property a null name reads: this.subPipeline[null] is the property
\* "null".
NullKey == "null"
\* Every string a caller may pass as a name.
NameStrings == PlainNames \cup {EmptyName} \cup ObjectPrototypeKeys
\* Every value of the optional subPipelineName parameter.
Targets == NameStrings \cup {UNDEFINED}
\* The names and targets matchIf is called with.  As a name to read, the
\* empty string behaves as any name without an entry; as targets, the plain
\* names are interchangeable, since the three names range over all of them.
MatchIfNames == PlainNames \cup ObjectPrototypeKeys
MatchIfTargets == {UNDEFINED, "a"}

Fields == {"author", "title"}
Values == {"v"}
RangeOperators == {"$lt", "$gte"}
FieldLists == {<<>>, <<"author">>, <<"title", "author">>,
               <<"editor", "title", "author">>}
CaseLists == {<<>>, <<[caseCondition |-> "c1", then |-> "t1"],
                      [caseCondition |-> "c2", then |-> "t2"]>>}

(***************************************************************************)
(* JavaScript values.                                                      *)
(***************************************************************************)
ArrayOf(stages) == [tag |-> "array", stages |-> stages]
Inherited == [tag |-> "inherited", stages |-> <<>>]
Undefined == [tag |-> "undefined", stages |-> <<>>]
Null == [tag |-> "null", stages |-> <<>>]

\* ToBoolean: undefined and null are falsy, every object (an empty array
\* included) is truthy.
Truthy(v) == v.tag \notin {"undefined", "null"}

\* this.subPipeline[name]: own entry, else Object.prototype, else undefined.
Read(sp, name) ==
    IF name \in DOMAIN sp THEN ArrayOf(sp[name])
    ELSE IF name \in ObjectPrototypeKeys THEN Inherited
    ELSE Undefined

\* Mutant: the delete leaves the entry where it is.
Delete_none(sp, name) == sp

\* delete this.subPipeline[name]: removes an own entry, nothing else.
Delete(sp, name) == [n \in (DOMAIN sp) \ {name} |-> sp[n]]

\* this.subPipeline[name] = stages
Store(sp, name, stages) ==
    [n \in (DOMAIN sp) \cup {name} |-> IF n = name THEN stages ELSE sp[n]]

\* A builder state and the result of a call on it.
State == [pipeline |-> pipeline, subPipeline |-> subPipeline]
Result(p, sp, outcome, ret) ==
    [pipeline |-> p, subPipeline |-> sp, outcome |-> outcome, ret |-> ret]
StateOf(r) == [pipeline |-> r.pipeline, subPipeline |-> r.subPipeline]

(***************************************************************************)
(* Stage factory: the stage documents.                                     *)
(***************************************************************************)
matchEqualStage(field, value) ==
    [op |-> "$match", field |-> field, value |-> value]

matchRangeStage(field, operator, value) ==
    [op |-> "$match", field |-> field, operator |-> operator, value |-> value]

\* { $and: v }
And(v) == [and |-> v]

condStage(condition, trueMatch, falseMatch) ==
    [op |-> "$match", expr |-> "$cond",
     if |-> And(condition), then |-> And(trueMatch), else |-> And(falseMatch)]

\* Mutant: the branches are in the reverse of the order of the cases.
switchStage_reversed(switchField, cases) ==
    [op |-> "$addFields", field |-> switchField,
     branches |-> [i \in 1..Len(cases) |->
                     [case |-> cases[Len(cases) + 1 - i].caseCondition,
                      then |-> cases[Len(cases) + 1 - i].then]],
     default |-> "null"]

switchStage(switchField, cases) ==
    [op |-> "$addFields", field |-> switchField,
     branches |-> [i \in 1..Len(cases) |->
                     [case |-> cases[i].caseCondition, then |-> cases[i].then]],
     default |-> "null"]

\* The schema of the model: the fields that declare a reference (options.ref)
\* and the collection of the referenced model.
HasRef(field) == field \in {"author", "editor"}
CollectionName(field) == "users"

lookupStage(field) ==
    [op |-> "$lookup", from |-> CollectionName(field), localField |-> field,
     foreignField |-> "_id", as |-> field \o "Details"]

\* Mutant: the path is the field itself.
unwindStage_bare(field) == [op |-> "$unwind", path |-> "$" \o field]

unwindStage(field) == [op |-> "$unwind", path |-> "$" \o field \o "Details"]
groupStage(groupConditions) == [op |-> "$group", spec |-> groupConditions]
projectStage(fields) == [op |-> "$project", spec |-> fields]
sortStage(sortConditions) == [op |-> "$sort", spec |-> sortConditions]
skipStage(skipValue) == [op |-> "$skip", spec |-> skipValue]
limitStage(limitValue) == [op |-> "$limit", spec |-> limitValue]
facetStage(facets) == [op |-> "$facet", spec |-> facets]

IsCond(stage) == "expr" \in DOMAIN stage

(***************************************************************************)
(* The private router and the registry operations.                         *)
(***************************************************************************)
\* Mutant: a stage without a target is put in front of the main pipeline.
addToPipeline_unshift(s, stage, subPipelineName) ==
    IF subPipelineName # UNDEFINED /\ subPipelineName # EmptyName
    THEN LET cur == Read(s.subPipeline, subPipelineName) IN
         IF ~Truthy(cur)
         THEN Result(s.pipeline, Store(s.subPipeline, subPipelineName, <<stage>>),
                     "ok", Undefined)
         ELSE IF cur.tag = "array"
         THEN Result(s.pipeline,
                     Store(s.subPipeline, subPipelineName, Append(cur.stages, stage)),
                     "ok", Undefined)
         ELSE Result(s.pipeline, s.subPipeline, "TypeError", Undefined)
    ELSE Result(<<stage>> \o s.pipeline, s.subPipeline, "ok", Undefined)

\* addToPipeline(stage, subPipelineName)
addToPipeline(s, stage, subPipelineName) ==
    IF subPipelineName # UNDEFINED /\ subPipelineName # EmptyName
    THEN LET cur == Read(s.subPipeline, subPipelineName) IN
         IF ~Truthy(cur)
         THEN Result(s.pipeline, Store(s.subPipeline, subPipelineName, <<stage>>),
                     "ok", Undefined)
         ELSE IF cur.tag = "array"
         THEN Result(s.pipeline,
                     Store(s.subPipeline, subPipelineName, Append(cur.stages, stage)),
                     "ok", Undefined)
         \* an inherited member has no push: TypeError
         ELSE Result(s.pipeline, s.subPipeline, "TypeError", Undefined)
    ELSE Result(Append(s.pipeline, stage), s.subPipeline, "ok", Undefined)

\* stages.forEach(stage => addToPipeline(stage, name)), stopping at a throw
RECURSIVE addAll(_, _, _)
addAll(s, stages, subPipelineName) ==
    IF stages = <<>> THEN Result(s.pipeline, s.subPipeline, "ok", Undefined)
    ELSE LET r == addToPipeline(s, Head(stages), subPipelineName) IN
         IF r.outcome # "ok" THEN r
         ELSE addAll(StateOf(r), Tail(stages), subPipelineName)

\* The own entry of a name in the registry, empty if there is none.
Own(sp, name) == IF name \in DOMAIN sp THEN sp[name] ELSE <<>>

\* The target sequence of a call: the main pipeline without a target name,
\* else the entry of the name.
TargetSeq(s, t) == IF t = UNDEFINED THEN s.pipeline ELSE Own(s.subPipeline, t)

\* The targets a stage operation is judged on: none, and two ordinary names,
\* of which the stage operations are called with the first only, so that the
\* second never has an entry.
OrdinaryTargets == {UNDEFINED, "a", "b"}

\* Mutant: retrieving one entry empties the registry.
getAndRemoveSubPipeline_clear(s, name) ==
    LET v == Read(s.subPipeline, name)
        sub == IF Truthy(v) THEN v ELSE Null
    IN IF Truthy(sub)
       THEN Result(s.pipeline, [n \in {} |-> <<>>], "ok", sub)
       ELSE Result(s.pipeline, s.subPipeline, "ok", sub)

\* getAndRemoveSubPipeline(name)
getAndRemoveSubPipeline(s, name) ==
    LET v == Read(s.subPipeline, name)
        sub == IF Truthy(v) THEN v ELSE Null
    IN IF Truthy(sub)
       THEN Result(s.pipeline, Delete(s.subPipeline, name), "ok", sub)
       ELSE Result(s.pipeline, s.subPipeline, "ok", sub)

\* Mutant: the entry is spliced but not deleted.
appendSubPipeline_keep(s, name) ==
    LET v == Read(s.subPipeline, name) IN
    IF Truthy(v)
    THEN IF v.tag = "array"
         THEN Result(s.pipeline \o v.stages, s.subPipeline, "ok", Undefined)
         ELSE Result(s.pipeline, s.subPipeline, "TypeError", Undefined)
    ELSE Result(s.pipeline, s.subPipeline, "ok", Undefined)

\* appendSubPipeline(name)
appendSubPipeline(s, name) ==
    LET v == Read(s.subPipeline, name) IN
    IF Truthy(v)
    THEN IF v.tag = "array"
         THEN Result(s.pipeline \o v.stages, Delete(s.subPipeline, name),
                     "ok", Undefined)
         \* spreading a value that is not iterable: TypeError
         ELSE Result(s.pipeline, s.subPipeline, "TypeError", Undefined)
    ELSE Result(s.pipeline, s.subPipeline, "ok", Undefined)

\* Mutant: build() hands the pipeline over and starts an empty one.
build_reset(s) == Result(<<>>, s.subPipeline, "ok", ArrayOf(s.pipeline))

\* build()
build(s) == Result(s.pipeline, s.subPipeline, "ok", ArrayOf(s.pipeline))

\* generateDefaultSubPipelineName(): the counter after the call and the name
\* returned.  The method is private and no method of the class calls it.
generateDefaultSubPipelineName(counter) ==
    [counter |-> counter + 1, name |-> "subPipeline_" \o ToString(counter + 1)]

(***************************************************************************)
(* The stage operations.                                                   *)
(***************************************************************************)
matchEqual(s, field, value, subPipelineName) ==
    addToPipeline(s, matchEqualStage(field, value), subPipelineName)

matchRange(s, field, operator, value, subPipelineName) ==
    addToPipeline(s, matchRangeStage(field, operator, value), subPipelineName)

\* Mutant: less-than delegates with the operator $lte.
matchLessThan_lte(s, field, value, subPipelineName) ==
    matchRange(s, field, "$lte", value, subPipelineName)

matchLessThan(s, field, value, subPipelineName) ==
    matchRange(s, field, "$lt", value, subPipelineName)

matchGreaterThan(s, field, value, subPipelineName) ==
    matchRange(s, field, "$gt", value, subPipelineName)

\* Mutant: the message lists the first name only.
matchIfMessage_first(conditionPipelineName, trueMatchPipelineName, falseMatchPipelineName) ==
    <<conditionPipelineName>>

\* The message of the Error matchIf throws lists its three names.
matchIfMessage(conditionPipelineName, trueMatchPipelineName, falseMatchPipelineName) ==
    <<conditionPipelineName, trueMatchPipelineName, falseMatchPipelineName>>

\* Mutant: matchIf reads the three entries and leaves them in the registry.
matchIf_peek(s, conditionPipelineName, trueMatchPipelineName, falseMatchPipelineName, subPipelineName) ==
    LET condition == Read(s.subPipeline, conditionPipelineName)
        trueMatch == Read(s.subPipeline, trueMatchPipelineName)
        falseMatch == Read(s.subPipeline, falseMatchPipelineName)
    IN IF ~Truthy(condition) \/ ~Truthy(trueMatch) \/ ~Truthy(falseMatch)
       THEN Result(s.pipeline, s.subPipeline, "Error",
                   [tag |-> "message",
                    stages |-> matchIfMessage(conditionPipelineName,
                                              trueMatchPipelineName,
                                              falseMatchPipelineName)])
       ELSE addToPipeline(s, condStage(condition, trueMatch, falseMatch),
                          subPipelineName)

matchIf(s, conditionPipelineName, trueMatchPipelineName, falseMatchPipelineName, subPipelineName) ==
    LET r1 == getAndRemoveSubPipeline(s, conditionPipelineName)
        r2 == getAndRemoveSubPipeline(StateOf(r1), trueMatchPipelineName)
        r3 == getAndRemoveSubPipeline(StateOf(r2), falseMatchPipelineName)
    IN IF ~Truthy(r1.ret) \/ ~Truthy(r2.ret) \/ ~Truthy(r3.ret)
       THEN Result(r3.pipeline, r3.subPipeline, "Error",
                   [tag |-> "message",
                    stages |-> matchIfMessage(conditionPipelineName,
                                              trueMatchPipelineName,
                                              falseMatchPipelineName)])
       ELSE addToPipeline(StateOf(r3), condStage(r1.ret, r2.ret, r3.ret),
                          subPipelineName)

matchSwitch(s, switchField, cases, subPipelineName) ==
    addToPipeline(s, switchStage(switchField, cases), subPipelineName)

\* The stages lookup emits: one per field with a declared reference.
RECURSIVE lookupStages(_)
\* Mutant: a stage for every field, with a declared reference or not.
lookupStages_all(fields) == [i \in 1..Len(fields) |-> lookupStage(fields[i])]

lookupStages(fields) ==
    IF fields = <<>> THEN <<>>
    ELSE (IF HasRef(Head(fields)) THEN <<lookupStage(Head(fields))>> ELSE <<>>)
         \o lookupStages(Tail(fields))

\* Mutant: lookup awaits the model of each field before it emits the stage.
lookupRuns_awaited(fields) ==
    [i \in 1..Len(fields) |-> lookupStages(<<fields[i]>>)]

\* The runs of the body of one lookup call, each with the stages it appends:
\* the body has no await, so the call itself runs the whole loop.
lookupRuns(fields) == <<lookupStages(fields)>>

\* lookup is async but awaits nothing: its body runs to completion within the
\* call, and an exception thrown in it is the rejection of the promise.
lookup(s, fields, subPipelineName) ==
    addAll(s, lookupStages(fields), subPipelineName)

unwindStages(fields) == [i \in 1..Len(fields) |-> unwindStage(fields[i])]

\* Mutant: unwind makes sure of the entry of its target before the loop.
unwind_reserve(s, fields, subPipelineName) ==
    IF subPipelineName \in PlainNames
    THEN addAll([pipeline |-> s.pipeline,
                 subPipeline |-> Store(s.subPipeline, subPipelineName,
                                       Own(s.subPipeline, subPipelineName))],
                unwindStages(fields), subPipelineName)
    ELSE addAll(s, unwindStages(fields), subPipelineName)

unwind(s, fields, subPipelineName) ==
    addAll(s, unwindStages(fields), subPipelineName)

\* Mutant: the stage depends on whether the main pipeline is empty.
group_stateful(s, groupConditions, subPipelineName) ==
    addToPipeline(s, groupStage(IF s.pipeline = <<>> THEN groupConditions
                                ELSE "other"),
                  subPipelineName)

group(s, groupConditions, subPipelineName) ==
    addToPipeline(s, groupStage(groupConditions), subPipelineName)

project(s, fields, subPipelineName) ==
    addToPipeline(s, projectStage(fields), subPipelineName)

sort(s, sortConditions, subPipelineName) ==
    addToPipeline(s, sortStage(sortConditions), subPipelineName)

skip(s, skipValue, subPipelineName) ==
    addToPipeline(s, skipStage(skipValue), subPipelineName)

limit(s, limitValue, subPipelineName) ==
    addToPipeline(s, limitStage(limitValue), subPipelineName)

facet(s, facets, subPipelineName) ==
    addToPipeline(s, facetStage(facets), subPipelineName)

(***************************************************************************)
(* Size of a state, for the bound.                                         *)
(***************************************************************************)
RECURSIVE SeqSum(_)
SeqSum(ns) == IF ns = <<>> THEN 0 ELSE Head(ns) + SeqSum(Tail(ns))

\* A conditional stage counts for itself and for what its three branches
\* hold; a branch that is an inherited member counts for one.
RECURSIVE Weight(_)
RECURSIVE ValueWeight(_)
ValueWeight(v) ==
    IF v.tag = "array"
    THEN SeqSum([i \in 1..Len(v.stages) |-> Weight(v.stages[i])])
    ELSE 1
Weight(stage) ==
    IF IsCond(stage)
    THEN 1 + ValueWeight(stage.if.and) + ValueWeight(stage.then.and)
           + ValueWeight(stage.else.and)
    ELSE 1

SeqWeight(stages) == SeqSum([i \in 1..Len(stages) |-> Weight(stages[i])])

TableWeight(sp) ==
    LET names == CHOOSE q \in [1..Cardinality(DOMAIN sp) -> DOMAIN sp] :
                     \A n \in DOMAIN sp : \E i \in DOMAIN q : q[i] = n
    IN SeqSum([i \in DOMAIN names |-> SeqWeight(sp[names[i]])])

Size(r) == SeqWeight(r.pipeline) + TableWeight(r.subPipeline)

(***************************************************************************)
(* The builder as a state machine: one action per public method.           *)
(*                                                                         *)
(* last is the method called last and how it ended; calls counts the calls *)
(* (Spec only); onlyMain and produced are history: whether every call so   *)
(* far was a stage operation without a target name (or build), and the     *)
(* stages those calls produced, in call order.                             *)
(*                                                                         *)
(* returned is what the array handed out by the last build() holds now,    *)
(* snapshot what it held when build() returned it (undefined before the    *)
(* first build()); like calls, they are kept in Spec only.  synthesized is  *)
(* the default names generated so far, in order.  heap and instances are   *)
(* the objects and the fields of two builders constructed side by side     *)
(* (SpecTwo).  tasks are the lookup calls made as asynchronous calls       *)
(* (SpecAsync).  refs is the builder with its arrays as objects (SpecRefs). *)
(***************************************************************************)
\* Mutant: the second builder takes the array and the object of the first.
constructor_shared(h) ==
    IF h = <<>>
    THEN [heap |-> <<<<>>, [n \in {} |-> <<>>]>>,
          instance |-> [pipeline |-> 1, subPipeline |-> 2, subPipelineCounter |-> 0]]
    ELSE [heap |-> h,
          instance |-> [pipeline |-> 1, subPipeline |-> 2, subPipelineCounter |-> 0]]

\* constructor(model) on the heap h: `[]` and `{}` are two new objects, and
\* the fields of the new builder refer to them.
constructor(h) ==
    [heap |-> h \o <<<<>>, [n \in {} |-> <<>>]>>,
     instance |-> [pipeline |-> Len(h) + 1, subPipeline |-> Len(h) + 2,
                   subPipelineCounter |-> 0]]

\* constructor(model)
Init ==
    /\ pipeline = <<>>
    /\ subPipeline = [n \in {} |-> <<>>]
    /\ subPipelineCounter = 0
    /\ last = [op |-> "constructor", outcome |-> "ok"]
    /\ calls = 0
    /\ onlyMain = TRUE
    /\ produced = <<>>
    /\ returned = Undefined
    /\ snapshot = Undefined
    /\ synthesized = <<>>
    /\ LET first == constructor(<<>>)
           second == constructor(first.heap)
       IN /\ heap = second.heap
          /\ instances = <<first.instance, second.instance>>
    /\ tasks = <<>>
    /\ refs = [cells |-> <<>>, registry |-> [n \in {} |-> 0], pipeline |-> <<>>,
               held |-> {}]

\* The bound of a run: Spec (deep = FALSE) makes at most MaxCalls calls,
\* SpecRegistry (deep = TRUE) keeps the builder within MaxStages stages.
Bounded(deep, r) ==
    IF deep THEN Size(r) <= MaxStages /\ UNCHANGED calls
    ELSE calls < MaxCalls /\ calls' = calls + 1

\* build() returns this.pipeline, the array the builder goes on pushing to
\* (the field is assigned in the constructor only): what a caller of build()
\* holds is, after a later call, the pipeline p that call left.
Alias(ret, p) == IF Truthy(ret) THEN ArrayOf(p) ELSE ret

\* A call op(...) with result r that emitted `stages` for target `target`.
Call(deep, op, r, isStageOp, target, stages) ==
    /\ Bounded(deep, r)
    /\ pipeline' = r.pipeline
    /\ subPipeline' = r.subPipeline
    /\ last' = [op |-> op, outcome |-> r.outcome]
    /\ onlyMain' = (onlyMain /\ isStageOp /\ target = UNDEFINED)
    /\ produced' = IF onlyMain' THEN produced \o stages ELSE <<>>
    /\ returned' = IF deep THEN returned ELSE Alias(returned, r.pipeline)
    /\ UNCHANGED <<subPipelineCounter, snapshot, synthesized, heap, instances,
                   tasks, refs>>

MatchEqualCall(deep) ==
    \E f \in Fields, v \in Values, t \in Targets :
        Call(deep, "matchEqual", matchEqual(State, f, v, t), TRUE, t,
             <<matchEqualStage(f, v)>>)

MatchIfCall(deep) ==
    \E c \in MatchIfNames, t \in MatchIfNames, f \in MatchIfNames,
       n \in MatchIfTargets :
        Call(deep, "matchIf", matchIf(State, c, t, f, n), FALSE, n, <<>>)

AppendSubPipelineCall(deep) ==
    \E n \in NameStrings :
        Call(deep, "appendSubPipeline", appendSubPipeline(State, n), FALSE, n, <<>>)

GetAndRemoveSubPipelineCall(deep) ==
    \E n \in NameStrings :
        Call(deep, "getAndRemoveSubPipeline", getAndRemoveSubPipeline(State, n),
             FALSE, n, <<>>)

\* build(): a call that is no stage operation but leaves the history of a
\* run of stage operations as it is.
BuildCall(deep) ==
    LET r == build(State) IN
    /\ Bounded(deep, r)
    /\ pipeline' = r.pipeline
    /\ subPipeline' = r.subPipeline
    /\ last' = [op |-> "build", outcome |-> r.outcome]
    /\ returned' = IF deep THEN returned ELSE r.ret
    /\ snapshot' = IF deep THEN snapshot ELSE r.ret
    /\ UNCHANGED <<subPipelineCounter, onlyMain, produced, synthesized, heap,
                   instances, tasks, refs>>

MatchEqual == MatchEqualCall(FALSE)

MatchRange ==
    \E f \in Fields, o \in RangeOperators, v \in Values, t \in Targets :
        Call(FALSE, "matchRange", matchRange(State, f, o, v, t), TRUE, t,
             <<matchRangeStage(f, o, v)>>)

MatchLessThan ==
    \E f \in Fields, v \in Values, t \in Targets :
        Call(FALSE, "matchLessThan", matchLessThan(State, f, v, t), TRUE, t,
             <<matchRangeStage(f, "$lt", v)>>)

MatchGreaterThan ==
    \E f \in Fields, v \in Values, t \in Targets :
        Call(FALSE, "matchGreaterThan", matchGreaterThan(State, f, v, t), TRUE, t,
             <<matchRangeStage(f, "$gt", v)>>)

MatchIf == MatchIfCall(FALSE)

MatchSwitch ==
    \E f \in Fields, cs \in CaseLists, t \in Targets :
        Call(FALSE, "matchSwitch", matchSwitch(State, f, cs, t), TRUE, t,
             <<switchStage(f, cs)>>)

Lookup ==
    \E fs \in FieldLists, t \in Targets :
        Call(FALSE, "lookup", lookup(State, fs, t), TRUE, t, lookupStages(fs))

Unwind ==
    \E fs \in FieldLists, t \in Targets :
        Call(FALSE, "unwind", unwind(State, fs, t), TRUE, t, unwindStages(fs))

Group ==
    \E v \in Values, t \in Targets :
        Call(FALSE, "group", group(State, v, t), TRUE, t, <<groupStage(v)>>)

Project ==
    \E v \in Values, t \in Targets :
        Call(FALSE, "project", project(State, v, t), TRUE, t, <<projectStage(v)>>)

Sort ==
    \E v \in Values, t \in Targets :
        Call(FALSE, "sort", sort(State, v, t), TRUE, t, <<sortStage(v)>>)

Skip ==
    \E v \in Values, t \in Targets :
        Call(FALSE, "skip", skip(State, v, t), TRUE, t, <<skipStage(v)>>)

Limit ==
    \E v \in Values, t \in Targets :
        Call(FALSE, "limit", limit(State, v, t), TRUE, t, <<limitStage(v)>>)

Facet ==
    \E v \in Values, t \in Targets :
        Call(FALSE, "facet", facet(State, v, t), TRUE, t, <<facetStage(v)>>)

AppendSubPipeline == AppendSubPipelineCall(FALSE)

GetAndRemoveSubPipeline == GetAndRemoveSubPipelineCall(FALSE)

Build == BuildCall(FALSE)

\* Every method, in runs of at most MaxCalls calls.
Next ==
    \/ MatchEqual
    \/ MatchRange
    \/ MatchLessThan
    \/ MatchGreaterThan
    \/ MatchIf
    \/ MatchSwitch
    \/ Lookup
    \/ Unwind
    \/ Group
    \/ Project
    \/ Sort
    \/ Skip
    \/ Limit
    \/ Facet
    \/ AppendSubPipeline
    \/ GetAndRemoveSubPipeline
    \/ Build

Spec == Init /\ [][Next]_vars

\* The registry methods with matchEqual as the stage operation, in runs of
\* any length on a builder holding at most MaxStages stages.
RegistryMatchEqual == MatchEqualCall(TRUE)
RegistryMatchIf == MatchIfCall(TRUE)
RegistryAppendSubPipeline == AppendSubPipelineCall(TRUE)
RegistryGetAndRemoveSubPipeline == GetAndRemoveSubPipelineCall(TRUE)
RegistryBuild == BuildCall(TRUE)

NextRegistry ==
    \/ RegistryMatchEqual
    \/ RegistryMatchIf
    \/ RegistryAppendSubPipeline
    \/ RegistryGetAndRemoveSubPipeline
    \/ RegistryBuild

SpecRegistry == Init /\ [][NextRegistry]_vars

\* The methods that write the registry, in runs of at most MaxCalls calls:
\* the two stage operations that may emit no stage, matchEqual for those
\* that emit one, and the three methods that consume entries.
EntriesMatchEqual == MatchEqualCall(FALSE)
EntriesLookup ==
    \E fs \in FieldLists, t \in Targets :
        Call(FALSE, "lookup", lookup(State, fs, t), TRUE, t, lookupStages(fs))
EntriesUnwind ==
    \E fs \in FieldLists, t \in Targets :
        Call(FALSE, "unwind", unwind(State, fs, t), TRUE, t, unwindStages(fs))
EntriesMatchIf == MatchIfCall(FALSE)
EntriesAppendSubPipeline == AppendSubPipelineCall(FALSE)
EntriesGetAndRemoveSubPipeline == GetAndRemoveSubPipelineCall(FALSE)

NextEntries ==
    \/ EntriesMatchEqual
    \/ EntriesLookup
    \/ EntriesUnwind
    \/ EntriesMatchIf
    \/ EntriesAppendSubPipeline
    \/ EntriesGetAndRemoveSubPipeline

SpecEntries == Init /\ [][NextEntries]_vars

\* The registry methods again, matchIf called with a few triples of names:
\* three stored names in two orders, a name passed twice, inherited names.
ConsumeNames ==
    {<<"a", "b", "c">>, <<"c", "a", "b">>, <<"a", "a", "b">>,
     <<"a", "constructor", "b">>, <<"constructor", "constructor", "constructor">>}
ConsumeMatchEqual == MatchEqualCall(TRUE)
ConsumeMatchIf ==
    \E names \in ConsumeNames, n \in MatchIfTargets :
        Call(TRUE, "matchIf", matchIf(State, names[1], names[2], names[3], n),
             FALSE, n, <<>>)
ConsumeAppendSubPipeline == AppendSubPipelineCall(TRUE)
ConsumeGetAndRemoveSubPipeline == GetAndRemoveSubPipelineCall(TRUE)

NextConsume ==
    \/ ConsumeMatchEqual
    \/ ConsumeMatchIf
    \/ ConsumeAppendSubPipeline
    \/ ConsumeGetAndRemoveSubPipeline

SpecConsume == Init /\ [][NextConsume]_vars

\* The stage operations alone, called for the main pipeline or one ordinary
\* name, in runs of at most MaxCalls calls.
StageTargets == {UNDEFINED, "a"}

StagesMatchEqual ==
    \E f \in Fields, v \in Values, t \in StageTargets :
        Call(FALSE, "matchEqual", matchEqual(State, f, v, t), TRUE, t,
             <<matchEqualStage(f, v)>>)

StagesMatchRange ==
    \E f \in Fields, o \in RangeOperators, v \in Values, t \in StageTargets :
        Call(FALSE, "matchRange", matchRange(State, f, o, v, t), TRUE, t,
             <<matchRangeStage(f, o, v)>>)

StagesMatchLessThan ==
    \E f \in Fields, v \in Values, t \in StageTargets :
        Call(FALSE, "matchLessThan", matchLessThan(State, f, v, t), TRUE, t,
             <<matchRangeStage(f, "$lt", v)>>)

StagesMatchGreaterThan ==
    \E f \in Fields, v \in Values, t \in StageTargets :
        Call(FALSE, "matchGreaterThan", matchGreaterThan(State, f, v, t), TRUE, t,
             <<matchRangeStage(f, "$gt", v)>>)

StagesMatchSwitch ==
    \E f \in Fields, cs \in CaseLists, t \in StageTargets :
        Call(FALSE, "matchSwitch", matchSwitch(State, f, cs, t), TRUE, t,
             <<switchStage(f, cs)>>)

StagesLookup ==
    \E fs \in FieldLists, t \in StageTargets :
        Call(FALSE, "lookup", lookup(State, fs, t), TRUE, t, lookupStages(fs))

StagesUnwind ==
    \E fs \in FieldLists, t \in StageTargets :
        Call(FALSE, "unwind", unwind(State, fs, t), TRUE, t, unwindStages(fs))

StagesGroup ==
    \E v \in Values, t \in StageTargets :
        Call(FALSE, "group", group(State, v, t), TRUE, t, <<groupStage(v)>>)

StagesProject ==
    \E v \in Values, t \in StageTargets :
        Call(FALSE, "project", project(State, v, t), TRUE, t, <<projectStage(v)>>)

StagesSort ==
    \E v \in Values, t \in StageTargets :
        Call(FALSE, "sort", sort(State, v, t), TRUE, t, <<sortStage(v)>>)

StagesSkip ==
    \E v \in Values, t \in StageTargets :
        Call(FALSE, "skip", skip(State, v, t), TRUE, t, <<skipStage(v)>>)

StagesLimit ==
    \E v \in Values, t \in StageTargets :
        Call(FALSE, "limit", limit(State, v, t), TRUE, t, <<limitStage(v)>>)

StagesFacet ==
    \E v \in Values, t \in StageTargets :
        Call(FALSE, "facet", facet(State, v, t), TRUE, t, <<facetStage(v)>>)

NextStages ==
    \/ StagesMatchEqual
    \/ StagesMatchRange
    \/ StagesMatchLessThan
    \/ StagesMatchGreaterThan
    \/ StagesMatchSwitch
    \/ StagesLookup
    \/ StagesUnwind
    \/ StagesGroup
    \/ StagesProject
    \/ StagesSort
    \/ StagesSkip
    \/ StagesLimit
    \/ StagesFacet

SpecStages == Init /\ [][NextStages]_vars

\* The stage operations that emit one stage from their arguments, with the
\* two wrappers of matchRange, in runs of at most MaxCalls calls.
SimpleMatchEqual ==
    \E f \in Fields, v \in Values, t \in StageTargets :
        Call(FALSE, "matchEqual", matchEqual(State, f, v, t), TRUE, t,
             <<matchEqualStage(f, v)>>)

SimpleMatchRange ==
    \E f \in Fields, o \in RangeOperators, v \in Values, t \in StageTargets :
        Call(FALSE, "matchRange", matchRange(State, f, o, v, t), TRUE, t,
             <<matchRangeStage(f, o, v)>>)

SimpleMatchLessThan ==
    \E f \in Fields, v \in Values, t \in StageTargets :
        Call(FALSE, "matchLessThan", matchLessThan(State, f, v, t), TRUE, t,
             <<matchRangeStage(f, "$lt", v)>>)

SimpleMatchGreaterThan ==
    \E f \in Fields, v \in Values, t \in StageTargets :
        Call(FALSE, "matchGreaterThan", matchGreaterThan(State, f, v, t), TRUE, t,
             <<matchRangeStage(f, "$gt", v)>>)

SimpleGroup ==
    \E v \in Values, t \in StageTargets :
        Call(FALSE, "group", group(State, v, t), TRUE, t, <<groupStage(v)>>)

SimpleProject ==
    \E v \in Values, t \in StageTargets :
        Call(FALSE, "project", project(State, v, t), TRUE, t, <<projectStage(v)>>)

SimpleSort ==
    \E v \in Values, t \in StageTargets :
        Call(FALSE, "sort", sort(State, v, t), TRUE, t, <<sortStage(v)>>)

SimpleSkip ==
    \E v \in Values, t \in StageTargets :
        Call(FALSE, "skip", skip(State, v, t), TRUE, t, <<skipStage(v)>>)

SimpleLimit ==
    \E v \in Values, t \in StageTargets :
        Call(FALSE, "limit", limit(State, v, t), TRUE, t, <<limitStage(v)>>)

SimpleFacet ==
    \E v \in Values, t \in StageTargets :
        Call(FALSE, "facet", facet(State, v, t), TRUE, t, <<facetStage(v)>>)

NextSimple ==
    \/ SimpleMatchEqual
    \/ SimpleMatchRange
    \/ SimpleMatchLessThan
    \/ SimpleMatchGreaterThan
    \/ SimpleGroup
    \/ SimpleProject
    \/ SimpleSort
    \/ SimpleSkip
    \/ SimpleLimit
    \/ SimpleFacet

SpecSimple == Init /\ [][NextSimple]_vars

(***************************************************************************)
(* Two builders of one program.  The arrays and objects the builders hold  *)
(* are cells of a heap; a builder holds the references its constructor     *)
(* stored in its fields.                                                   *)
(***************************************************************************)
Builders == {1, 2}
TwoTargets == {UNDEFINED, "a", "constructor"}
TwoNames == {"a", "constructor"}

\* The state of builder i, read through its references.
InstanceState(i) ==
    [pipeline |-> heap[instances[i].pipeline],
     subPipeline |-> heap[instances[i].subPipeline]]

\* What builder i holds: main pipeline, registry and counter.
View(i) ==
    [pipeline |-> heap[instances[i].pipeline],
     subPipeline |-> heap[instances[i].subPipeline],
     counter |-> instances[i].subPipelineCounter]

\* A call op(...) on builder i with result r: the pushes and deletes of the
\* call are made on the array and the object the fields of i refer to.
TwoCall(i, op, r) ==
    /\ calls < MaxCalls
    /\ calls' = calls + 1
    /\ heap' = [heap EXCEPT ![instances[i].pipeline] = r.pipeline,
                            ![instances[i].subPipeline] = r.subPipeline]
    /\ last' = [op |-> op, outcome |-> r.outcome, on |-> i]
    /\ UNCHANGED <<instances, pipeline, subPipeline, subPipelineCounter, onlyMain,
                   produced, returned, snapshot, synthesized, tasks, refs>>

TwoMatchEqual ==
    \E i \in Builders, f \in Fields, v \in Values, t \in TwoTargets :
        TwoCall(i, "matchEqual", matchEqual(InstanceState(i), f, v, t))

TwoMatchIf ==
    \E i \in Builders, c \in TwoNames, t \in TwoNames, f \in TwoNames :
        TwoCall(i, "matchIf", matchIf(InstanceState(i), c, t, f, UNDEFINED))

TwoAppendSubPipeline ==
    \E i \in Builders, n \in TwoNames :
        TwoCall(i, "appendSubPipeline", appendSubPipeline(InstanceState(i), n))

TwoGetAndRemoveSubPipeline ==
    \E i \in Builders, n \in TwoNames :
        TwoCall(i, "getAndRemoveSubPipeline",
                getAndRemoveSubPipeline(InstanceState(i), n))

TwoBuild == \E i \in Builders : TwoCall(i, "build", build(InstanceState(i)))

\* Calls on two builders, interleaved, at most MaxCalls in all.
NextTwo ==
    \/ TwoMatchEqual
    \/ TwoMatchIf
    \/ TwoAppendSubPipeline
    \/ TwoGetAndRemoveSubPipeline
    \/ TwoBuild

SpecTwo == Init /\ [][NextTwo]_vars

(***************************************************************************)
(* lookup as the caller sees it: an async function.  A call runs the body  *)
(* up to its first await and returns a promise; every later run of the     *)
(* body, and the resolution of the promise, is a job of its own that runs  *)
(* after whatever the caller has invoked meanwhile.  tasks holds, for each *)
(* lookup call, its target, the length of the target sequence at the call, *)
(* the stages the call is to append, the runs still to come, and whether   *)
(* the promise has resolved.                                               *)
(***************************************************************************)
AsyncStep(op, r, newTasks) ==
    /\ pipeline' = r.pipeline
    /\ subPipeline' = r.subPipeline
    /\ last' = [op |-> op, outcome |-> r.outcome]
    /\ tasks' = newTasks
    /\ UNCHANGED <<subPipelineCounter, onlyMain, produced, returned, snapshot,
                   synthesized, heap, instances, refs>>

\* await builder.lookup(fields, t) or builder.lookup(fields, t) unawaited: the
\* call itself.
AsyncLookup ==
    \E fs \in FieldLists, t \in StageTargets :
        LET runs == lookupRuns(fs)
            first == IF runs = <<>> THEN <<>> ELSE Head(runs)
            rest == IF runs = <<>> THEN <<>> ELSE Tail(runs)
        IN /\ calls < MaxCalls
           /\ calls' = calls + 1
           /\ AsyncStep("lookup", addAll(State, first, t),
                        Append(tasks, [target |-> t,
                                       start |-> Len(TargetSeq(State, t)),
                                       stages |-> lookupStages(fs),
                                       rest |-> rest,
                                       resolved |-> FALSE]))

\* A job of a pending lookup call: the next run of its body if one is left,
\* the resolution of its promise otherwise.
AsyncLookupJob ==
    \E k \in DOMAIN tasks :
        /\ ~tasks[k].resolved
        /\ UNCHANGED calls
        /\ IF tasks[k].rest = <<>>
           THEN AsyncStep("lookup.then",
                          Result(pipeline, subPipeline, "ok", Undefined),
                          [tasks EXCEPT ![k].resolved = TRUE])
           ELSE AsyncStep("lookup.resume",
                          addAll(State, Head(tasks[k].rest), tasks[k].target),
                          [tasks EXCEPT ![k].rest = Tail(@)])

\* Another operation invoked by the caller, the promise awaited or not.
AsyncMatchEqual ==
    \E f \in Fields, v \in Values, t \in StageTargets :
        /\ calls < MaxCalls
        /\ calls' = calls + 1
        /\ AsyncStep("matchEqual", matchEqual(State, f, v, t), tasks)

NextAsync ==
    \/ AsyncLookup
    \/ AsyncLookupJob
    \/ AsyncMatchEqual

SpecAsync == Init /\ [][NextAsync]_vars

(***************************************************************************)
(* The builder with its arrays as objects.  An array is a cell; the        *)
(* registry maps a name to the cell of its entry, a conditional stage      *)
(* holds the cells of its three branches, and getAndRemoveSubPipeline      *)
(* returns a cell.  refs.held is what the callers and the conditional      *)
(* stages were handed: the name, the cell, and what the cell held then.    *)
(***************************************************************************)
MaxRefStages == 5
RefTargets == PlainNames \cup {UNDEFINED}
\* The names matchIf is called with: three different names in two orders,
\* and one name passed twice.
MatchIfRefNames == {<<"a", "b", "c">>, <<"c", "a", "b">>, <<"a", "a", "b">>}
\* The field matched on: the arrays are told apart by their cells, whatever
\* the stages they hold.
RefFields == {"author"}
NoCell == 0

RefResult(h, outcome, ret) == [h |-> h, outcome |-> outcome, ret |-> ret]

\* addToPipeline(stage, subPipelineName), the target an own name or none
addToPipelineRef(h, stage, subPipelineName) ==
    IF subPipelineName # UNDEFINED /\ subPipelineName # EmptyName
    THEN LET h1 == IF subPipelineName \in DOMAIN h.registry THEN h
                   ELSE [h EXCEPT !.cells = Append(@, <<>>),
                                  !.registry = Store(@, subPipelineName,
                                                     Len(h.cells) + 1)]
         IN [h1 EXCEPT !.cells[h1.registry[subPipelineName]] = Append(@, stage)]
    ELSE [h EXCEPT !.pipeline = Append(@, stage)]

\* Mutant: the array is returned and stays the entry of the name.
getAndRemoveSubPipelineRef_keep(h, name) ==
    IF name \in DOMAIN h.registry
    THEN RefResult(h, "ok", h.registry[name])
    ELSE RefResult(h, "ok", NoCell)

\* getAndRemoveSubPipeline(name): the array itself is returned
getAndRemoveSubPipelineRef(h, name) ==
    IF name \in DOMAIN h.registry
    THEN RefResult([h EXCEPT !.registry = Delete(@, name)], "ok", h.registry[name])
    ELSE RefResult(h, "ok", NoCell)

\* appendSubPipeline(name): the stages of the array are pushed one by one
appendSubPipelineRef(h, name) ==
    IF name \in DOMAIN h.registry
    THEN [h EXCEPT !.pipeline = @ \o h.cells[h.registry[name]],
                   !.registry = Delete(@, name)]
    ELSE h

\* The conditional stage: the three arrays are embedded as they are.
condStageRef(condition, trueMatch, falseMatch) ==
    [op |-> "$match", expr |-> "$cond", if |-> condition, then |-> trueMatch,
     else |-> falseMatch]

\* matchIf(condition, trueMatch, falseMatch, subPipelineName)
matchIfRef(h, conditionPipelineName, trueMatchPipelineName, falseMatchPipelineName, subPipelineName) ==
    LET r1 == getAndRemoveSubPipelineRef(h, conditionPipelineName)
        r2 == getAndRemoveSubPipelineRef(r1.h, trueMatchPipelineName)
        r3 == getAndRemoveSubPipelineRef(r2.h, falseMatchPipelineName)
    IN IF r1.ret = NoCell \/ r2.ret = NoCell \/ r3.ret = NoCell
       THEN RefResult(r3.h, "Error", <<>>)
       ELSE RefResult(addToPipelineRef(r3.h, condStageRef(r1.ret, r2.ret, r3.ret),
                                       subPipelineName),
                      "ok", <<[name |-> conditionPipelineName, ref |-> r1.ret],
                              [name |-> trueMatchPipelineName, ref |-> r2.ret],
                              [name |-> falseMatchPipelineName, ref |-> r3.ret]>>)

\* The stages held by the arrays and the main pipeline together.
SizeRef(h) ==
    SeqSum([k \in 1..Len(h.cells) |-> Len(h.cells[k])]) + Len(h.pipeline)

\* What is handed out with the cells of `given`, as the cells are in h.
Held(h, given) ==
    {[name |-> given[i].name, ref |-> given[i].ref,
      stages |-> h.cells[given[i].ref]] : i \in DOMAIN given}

RefStep(op, outcome, h, given) ==
    /\ SizeRef(h) <= MaxRefStages
    /\ refs' = [h EXCEPT !.held = @ \cup Held(h, given)]
    /\ last' = [op |-> op, outcome |-> outcome]
    /\ UNCHANGED <<pipeline, subPipeline, subPipelineCounter, calls, onlyMain,
                   produced, returned, snapshot, synthesized, heap, instances,
                   tasks>>

RefMatchEqual ==
    \E f \in RefFields, v \in Values, t \in RefTargets :
        RefStep("matchEqual", "ok", addToPipelineRef(refs, matchEqualStage(f, v), t),
                <<>>)

RefGetAndRemoveSubPipeline ==
    \E n \in PlainNames :
        LET r == getAndRemoveSubPipelineRef(refs, n) IN
        RefStep("getAndRemoveSubPipeline", r.outcome, r.h,
                IF r.ret = NoCell THEN <<>> ELSE <<[name |-> n, ref |-> r.ret]>>)

RefAppendSubPipeline ==
    \E n \in PlainNames :
        RefStep("appendSubPipeline", "ok", appendSubPipelineRef(refs, n), <<>>)

RefMatchIf ==
    \E names \in MatchIfRefNames, n \in MatchIfTargets :
        LET r == matchIfRef(refs, names[1], names[2], names[3], n) IN
        RefStep("matchIf", r.outcome, r.h, r.ret)

NextRefs ==
    \/ RefMatchEqual
    \/ RefGetAndRemoveSubPipeline
    \/ RefAppendSubPipeline
    \/ RefMatchIf

SpecRefs == Init /\ [][NextRefs]_vars

(***************************************************************************)
(* The flag-based variant of the class (src/unnamed/part_002): a stage     *)
(* operation takes isSubPipeline and an optional name, and a name that is  *)
(* absent (or falsy) is replaced by a generated default name.  Modelled    *)
(* are the methods whose stage is built from the arguments alone; matchIf  *)
(* of the variant, which embeds the stored arrays themselves in its stage, *)
(* is not.                                                                 *)
(***************************************************************************)
DraftTargets == {UNDEFINED, EmptyName, "a", "constructor", "subPipeline_0"}

DraftState ==
    [pipeline |-> pipeline, subPipeline |-> subPipeline,
     counter |-> subPipelineCounter]
\* names: the default names generated during the call, in order.
DraftResult(p, sp, counter, names, outcome, ret) ==
    [pipeline |-> p, subPipeline |-> sp, counter |-> counter, names |-> names,
     outcome |-> outcome, ret |-> ret]
DraftStateOf(r) ==
    [pipeline |-> r.pipeline, subPipeline |-> r.subPipeline, counter |-> r.counter]

\* Mutant: the counter is read but not advanced.
generateDefaultSubPipelineNameDraft_same(counter) ==
    [counter |-> counter, name |-> "subPipeline_" \o ToString(counter)]

\* generateDefaultSubPipelineName() of the variant: post-increment.
generateDefaultSubPipelineNameDraft(counter) ==
    [counter |-> counter + 1, name |-> "subPipeline_" \o ToString(counter)]

\* const pipelineName = subPipelineName || this.generateDefaultSubPipelineName()
\* the name, the counter after it and the names generated for it.
pipelineNameDraft(s, subPipelineName) ==
    IF subPipelineName # UNDEFINED /\ subPipelineName # EmptyName
    THEN [name |-> subPipelineName, counter |-> s.counter, names |-> <<>>]
    ELSE LET g == generateDefaultSubPipelineNameDraft(s.counter) IN
         [name |-> g.name, counter |-> g.counter, names |-> <<g.name>>]

\* Mutant: a stage without an explicit name goes to the main pipeline.
routeDraft_main(s, stage, isSubPipeline, subPipelineName) ==
    LET n == pipelineNameDraft(s, subPipelineName) IN
    IF isSubPipeline /\ n.names = <<>>
    THEN LET cur == Read(s.subPipeline, n.name) IN
         IF ~Truthy(cur)
         THEN DraftResult(s.pipeline, Store(s.subPipeline, n.name, <<stage>>),
                          n.counter, n.names, "ok", Undefined)
         ELSE IF cur.tag = "array"
         THEN DraftResult(s.pipeline,
                          Store(s.subPipeline, n.name, Append(cur.stages, stage)),
                          n.counter, n.names, "ok", Undefined)
         ELSE DraftResult(s.pipeline, s.subPipeline, n.counter, n.names,
                          "TypeError", Undefined)
    ELSE DraftResult(Append(s.pipeline, stage), s.subPipeline, n.counter, n.names,
                     "ok", Undefined)

\* The routing every stage operation of the variant ends with: the name is
\* resolved first, whatever isSubPipeline is.
routeDraft(s, stage, isSubPipeline, subPipelineName) ==
    LET n == pipelineNameDraft(s, subPipelineName) IN
    IF isSubPipeline
    THEN LET cur == Read(s.subPipeline, n.name) IN
         IF ~Truthy(cur)
         THEN DraftResult(s.pipeline, Store(s.subPipeline, n.name, <<stage>>),
                          n.counter, n.names, "ok", Undefined)
         ELSE IF cur.tag = "array"
         THEN DraftResult(s.pipeline,
                          Store(s.subPipeline, n.name, Append(cur.stages, stage)),
                          n.counter, n.names, "ok", Undefined)
         \* an inherited member has no push: TypeError
         ELSE DraftResult(s.pipeline, s.subPipeline, n.counter, n.names,
                          "TypeError", Undefined)
    ELSE DraftResult(Append(s.pipeline, stage), s.subPipeline, n.counter, n.names,
                     "ok", Undefined)

matchEqualDraft(s, field, value, isSubPipeline, subPipelineName) ==
    routeDraft(s, matchEqualStage(field, value), isSubPipeline, subPipelineName)

matchRangeDraft(s, field, operator, value, isSubPipeline, subPipelineName) ==
    routeDraft(s, matchRangeStage(field, operator, value), isSubPipeline,
               subPipelineName)

\* lookup of the variant: the name is resolved anew for every field with a
\* declared reference.
RECURSIVE lookupDraft(_, _, _, _)
lookupDraft(s, fields, isSubPipeline, subPipelineName) ==
    IF fields = <<>>
    THEN DraftResult(s.pipeline, s.subPipeline, s.counter, <<>>, "ok", Undefined)
    ELSE IF ~HasRef(Head(fields))
    THEN lookupDraft(s, Tail(fields), isSubPipeline, subPipelineName)
    ELSE LET r == routeDraft(s, lookupStage(Head(fields)), isSubPipeline,
                             subPipelineName)
         IN IF r.outcome # "ok" THEN r
            ELSE LET rest == lookupDraft(DraftStateOf(r), Tail(fields),
                                         isSubPipeline, subPipelineName)
                 IN [rest EXCEPT !.names = r.names \o rest.names]

groupDraft(s, groupConditions, isSubPipeline, subPipelineName) ==
    routeDraft(s, groupStage(groupConditions), isSubPipeline, subPipelineName)

\* appendSubPipeline(subPipelineName?) of the variant
appendSubPipelineDraft(s, subPipelineName) ==
    LET n == pipelineNameDraft(s, subPipelineName)
        v == Read(s.subPipeline, n.name)
    IN IF Truthy(v)
       THEN IF v.tag = "array"
            THEN DraftResult(s.pipeline \o v.stages, Delete(s.subPipeline, n.name),
                             n.counter, n.names, "ok", Undefined)
            ELSE DraftResult(s.pipeline, s.subPipeline, n.counter, n.names,
                             "TypeError", Undefined)
       ELSE DraftResult(s.pipeline, s.subPipeline, n.counter, n.names, "ok",
                        Undefined)

\* getSubPipeline(subPipelineName) of the variant
getSubPipeline(s, subPipelineName) ==
    LET v == Read(s.subPipeline, subPipelineName) IN
    IF Truthy(v)
    THEN DraftResult(s.pipeline, Delete(s.subPipeline, subPipelineName), s.counter,
                     <<>>, "ok", v)
    ELSE DraftResult(s.pipeline, s.subPipeline, s.counter, <<>>, "ok", Null)

\* build() of the variant
buildDraft(s) ==
    DraftResult(s.pipeline, s.subPipeline, s.counter, <<>>, "ok",
                ArrayOf(s.pipeline))

\* A call op(...) of the variant with result r.
DraftCall(op, r) ==
    /\ calls < MaxCalls
    /\ calls' = calls + 1
    /\ pipeline' = r.pipeline
    /\ subPipeline' = r.subPipeline
    /\ subPipelineCounter' = r.counter
    /\ synthesized' = synthesized \o r.names
    /\ last' = [op |-> op, outcome |-> r.outcome]
    /\ UNCHANGED <<onlyMain, produced, returned, snapshot, heap, instances, tasks,
                   refs>>

DraftMatchEqual ==
    \E f \in Fields, v \in Values, b \in BOOLEAN, t \in DraftTargets :
        DraftCall("matchEqual", matchEqualDraft(DraftState, f, v, b, t))

DraftMatchRange ==
    \E f \in Fields, o \in RangeOperators, v \in Values, b \in BOOLEAN,
       t \in DraftTargets :
        DraftCall("matchRange", matchRangeDraft(DraftState, f, o, v, b, t))

DraftLookup ==
    \E fs \in FieldLists, b \in BOOLEAN, t \in DraftTargets :
        DraftCall("lookup", lookupDraft(DraftState, fs, b, t))

DraftGroup ==
    \E v \in Values, b \in BOOLEAN, t \in DraftTargets :
        DraftCall("group", groupDraft(DraftState, v, b, t))

DraftAppendSubPipeline ==
    \E t \in DraftTargets :
        DraftCall("appendSubPipeline", appendSubPipelineDraft(DraftState, t))

DraftGetSubPipeline ==
    \E t \in DraftTargets \ {UNDEFINED} :
        DraftCall("getSubPipeline", getSubPipeline(DraftState, t))

DraftBuild == DraftCall("build", buildDraft(DraftState))

\* The variant, in runs of at most MaxCalls calls.
NextDraft ==
    \/ DraftMatchEqual
    \/ DraftMatchRange
    \/ DraftLookup
    \/ DraftGroup
    \/ DraftAppendSubPipeline
    \/ DraftGetSubPipeline
    \/ DraftBuild

SpecDraft == Init /\ [][NextDraft]_vars

(***************************************************************************)
(* Properties.  A property of a method is stated of its result on the      *)
(* current state, for every argument: the actions take exactly these       *)
(* results as their next states.                                           *)
(***************************************************************************)
Range(f) == {f[i] : i \in DOMAIN f}
Call1(r, stages) == [r |-> r, stages |-> stages]

\* Every stage operation called on s with target t: its result and the
\* stages its factory produced.
StageCalls(s, t) ==
    {Call1(matchEqual(s, f, v, t), <<matchEqualStage(f, v)>>) :
        f \in Fields, v \in Values}
    \cup {Call1(matchRange(s, f[1], f[2], v, t), <<matchRangeStage(f[1], f[2], v)>>) :
        f \in Fields \X RangeOperators, v \in Values}
    \cup {Call1(matchLessThan(s, f, v, t), <<matchRangeStage(f, "$lt", v)>>) :
        f \in Fields, v \in Values}
    \cup {Call1(matchGreaterThan(s, f, v, t), <<matchRangeStage(f, "$gt", v)>>) :
        f \in Fields, v \in Values}
    \cup {Call1(matchSwitch(s, f, cs, t), <<switchStage(f, cs)>>) :
        f \in Fields, cs \in CaseLists}
    \cup {Call1(unwind(s, fs, t), unwindStages(fs)) : fs \in FieldLists}
    \cup {Call1(group(s, v, t), <<groupStage(v)>>) : v \in Values}
    \cup {Call1(project(s, v, t), <<projectStage(v)>>) : v \in Values}
    \cup {Call1(sort(s, v, t), <<sortStage(v)>>) : v \in Values}
    \cup {Call1(skip(s, v, t), <<skipStage(v)>>) : v \in Values}
    \cup {Call1(limit(s, v, t), <<limitStage(v)>>) : v \in Values}
    \cup {Call1(facet(s, v, t), <<facetStage(v)>>) : v \in Values}

\* C1: on a fresh builder, after any sequence of stage operations called
\* without a target name, build() returns exactly the stages those calls
\* produced, in call order.
C1_AppendOrder == onlyMain => build(State).ret = ArrayOf(produced)

\* Two calls without a target have put different stages in the pipeline.
C1_Witness ==
    /\ onlyMain /\ calls = MaxCalls
    /\ Len(pipeline) >= 2 /\ pipeline[1] # pipeline[Len(pipeline)]

\* C2: a stage operation called with any string as target name appends its
\* stage to the entry of that name (created if absent) and leaves the main
\* pipeline unchanged.
C2_NamedTargetRouted ==
    \A t \in NameStrings : \A c \in StageCalls(State, t) :
        c.stages # <<>> =>
            /\ c.r.outcome = "ok"
            /\ c.r.pipeline = pipeline
            /\ t \in DOMAIN c.r.subPipeline
            /\ c.r.subPipeline[t] = Own(subPipeline, t) \o c.stages

\* The three names of a matchIf call that have no entry in sp.
Missing(sp, c, t, f) == {c, t, f} \ DOMAIN sp

\* C3: matchIf called with three names that all have an entry succeeds,
\* leaves none of the three entries, and appends exactly one stage to its
\* target (the main pipeline without a target name, else the named entry).
C3_MatchIfConsumes ==
    \A c \in MatchIfNames, t \in MatchIfNames, f \in MatchIfNames,
       n \in MatchIfTargets :
        Missing(subPipeline, c, t, f) = {} =>
            LET r == matchIf(State, c, t, f, n) IN
            /\ r.outcome = "ok"
            /\ {c, t, f} \cap DOMAIN r.subPipeline = {}
            /\ IF n = UNDEFINED
               THEN /\ Len(r.pipeline) = Len(pipeline) + 1
                    /\ SubSeq(r.pipeline, 1, Len(pipeline)) = pipeline
               ELSE /\ r.pipeline = pipeline
                    /\ Len(Own(r.subPipeline, n)) = Len(Own(subPipeline, n)) + 1

\* C4: matchIf called with ordinary names of which at least one has no
\* entry raises its error and leaves the main pipeline and the whole
\* registry as they were.
C4_MatchIfFailureAtomic ==
    \A c \in PlainNames, t \in PlainNames, f \in PlainNames,
       n \in MatchIfTargets :
        Missing(subPipeline, c, t, f) # {} =>
            LET r == matchIf(State, c, t, f, n) IN
            /\ r.outcome = "Error"
            /\ r.pipeline = pipeline
            /\ r.subPipeline = subPipeline

\* C5: matchIf raises its error whenever one of its three names has no
\* entry, for every choice of the names and of the target.
C5_MatchIfRaisesOnMissing ==
    \A c \in MatchIfNames, t \in MatchIfNames, f \in MatchIfNames,
       n \in MatchIfTargets :
        Missing(subPipeline, c, t, f) # {} =>
            matchIf(State, c, t, f, n).outcome = "Error"

\* C6: matchIf called with the same name as two of its three arguments, both
\* names having an entry, appends one conditional stage to the main pipeline
\* and leaves neither entry.
C6_MatchIfNameTwice ==
    \A c \in PlainNames, t \in PlainNames, f \in PlainNames :
        (Cardinality({c, t, f}) = 2 /\ Missing(subPipeline, c, t, f) = {}) =>
            LET r == matchIf(State, c, t, f, UNDEFINED) IN
            /\ r.outcome = "ok"
            /\ Len(r.pipeline) = Len(pipeline) + 1
            /\ IsCond(r.pipeline[Len(r.pipeline)])
            /\ {c, t, f} \cap DOMAIN r.subPipeline = {}

C8_SpliceAndClear ==
    \A n \in NameStrings :
        LET r == appendSubPipeline(State, n) IN
        /\ r.outcome = "ok"
        /\ r.pipeline = pipeline \o Own(subPipeline, n)
        /\ r.subPipeline = Delete(subPipeline, n)

\* C9: calling appendSubPipeline twice in a row with the same name leaves
\* the main pipeline and the registry as calling it once does.
C9_SpliceIdempotent ==
    \A n \in NameStrings :
        LET once == appendSubPipeline(State, n)
            twice == appendSubPipeline(StateOf(once), n)
        IN StateOf(twice) = StateOf(once)

\* appendSubPipeline has spliced an entry of three stages, not all equal,
\* into the main pipeline while another entry stays in the registry.
C9_Witness ==
    /\ last.op = "appendSubPipeline" /\ last.outcome = "ok"
    /\ Len(pipeline) = 3
    /\ pipeline[2] # pipeline[3]
    /\ DOMAIN subPipeline # {}

\* C10: getAndRemoveSubPipeline(name) returns the stored list and deletes
\* the entry when there is one; on a builder on which no name was written
\* yet it returns null for every name, raises no error and changes nothing.
C10_RetrieveAndRemove ==
    /\ \A n \in DOMAIN subPipeline :
        LET r == getAndRemoveSubPipeline(State, n) IN
        /\ r.outcome = "ok"
        /\ r.ret = ArrayOf(subPipeline[n])
        /\ r.subPipeline = Delete(subPipeline, n)
        /\ r.pipeline = pipeline
    /\ onlyMain =>
        \A n \in NameStrings :
            LET r == getAndRemoveSubPipeline(State, n) IN
            /\ r.outcome = "ok"
            /\ r.ret = Null
            /\ StateOf(r) = State

\* C11: for every name, a getAndRemoveSubPipeline(name) called right after a
\* getAndRemoveSubPipeline(name) returns null.
C11_SecondRetrieveNull ==
    \A n \in NameStrings :
        LET first == getAndRemoveSubPipeline(State, n)
            second == getAndRemoveSubPipeline(StateOf(first), n)
        IN second.ret = Null

\* C12: build() leaves the main pipeline, the registry and the counter as
\* they were, and a build() called right after a build() returns an equal
\* sequence.
C12_BuildReadOnly ==
    /\ [](/\ StateOf(build(State)) = State
          /\ build(State).outcome = "ok"
          /\ build(StateOf(build(State))).ret = build(State).ret)
    /\ [][last'.op = "build" =>
            UNCHANGED <<pipeline, subPipeline, subPipelineCounter>>]_vars

\* build() was called on a builder holding stages in its main pipeline and
\* in its registry.
C12_Witness ==
    /\ last.op = "build" /\ last.outcome = "ok"
    /\ pipeline # <<>>
    /\ DOMAIN subPipeline # {}

\* C13: the sequence a build() returned holds, after any later calls on the
\* builder, what it held when build() returned it.
C13_BuildSnapshot == Truthy(returned) => returned = snapshot

IsPrefix(p, q) == Len(p) <= Len(q) /\ SubSeq(q, 1, Len(p)) = p

\* C14: every call of every method leaves a main pipeline of which the main
\* pipeline before the call is a prefix: the main pipeline is never
\* reordered and never shrinks.
C14_GrowsByAppend == [][IsPrefix(pipeline, pipeline')]_vars

\* A call has appended two stages behind a stage of another kind.
C14_Witness ==
    /\ last.op = "unwind" /\ last.outcome = "ok"
    /\ Len(pipeline) = 3
    /\ pipeline[1].op = "$match" /\ pipeline[3].op = "$unwind"

\* C15: lookup(fields) appends to its target (the main pipeline, or the
\* entry of an ordinary name) exactly one $lookup stage for each field of the
\* list that declares a reference, none for the other fields, raising no
\* error; the stages come in the order of these fields in the list and each
\* has its field as localField and '<field>Details' as `as`.
C15_LookupPerRelation ==
    \A fs \in FieldLists, t \in OrdinaryTargets :
        LET r == lookup(State, fs, t)
            before == IF t = UNDEFINED THEN pipeline ELSE Own(subPipeline, t)
            after == IF t = UNDEFINED THEN r.pipeline ELSE Own(r.subPipeline, t)
            rel == SelectSeq(fs, HasRef)
        IN /\ r.outcome = "ok"
           /\ IsPrefix(before, after)
           /\ Len(after) = Len(before) + Len(rel)
           /\ \A i \in 1..Len(rel) :
                LET st == after[Len(before) + i] IN
                /\ st.op = "$lookup"
                /\ st.localField = rel[i]
                /\ st.as = rel[i] \o "Details"
           /\ (Len(fs) = 2 /\ Len(rel) = 1) => Len(after) = Len(before) + 1

\* lookup of a list of two fields with a reference around one without has
\* appended two stages behind a stage of another kind.
C15_Witness ==
    /\ last.op = "lookup" /\ last.outcome = "ok"
    /\ Len(pipeline) = 3
    /\ pipeline[1].op # "$lookup"
    /\ pipeline[2].op = "$lookup" /\ pipeline[2].as = "editorDetails"
    /\ pipeline[3].op = "$lookup" /\ pipeline[3].as = "authorDetails"

\* C16: every method other than matchIf completes without raising an error,
\* in every reachable state, for every argument and for every string as
\* target or sub-pipeline name.
C16_OnlyMatchIfFails ==
    /\ \A t \in Targets : \A c \in StageCalls(State, t) : c.r.outcome = "ok"
    /\ \A t \in Targets, fs \in FieldLists : lookup(State, fs, t).outcome = "ok"
    /\ \A n \in NameStrings :
        /\ appendSubPipeline(State, n).outcome = "ok"
        /\ getAndRemoveSubPipeline(State, n).outcome = "ok"
    /\ build(State).outcome = "ok"

\* The default name the variant generates at counter value k.
DefaultName(k) == "subPipeline_" \o ToString(k)

C18_DefaultNamesFresh ==
    /\ [](/\ \A i, j \in DOMAIN synthesized :
                i # j => synthesized[i] # synthesized[j]
          /\ Len(synthesized) = subPipelineCounter
          /\ \A j, k \in 0..MaxCounter :
                /\ generateDefaultSubPipelineName(k).counter > k
                /\ j # k => generateDefaultSubPipelineName(j).name
                                # generateDefaultSubPipelineName(k).name)
    /\ [][subPipelineCounter' >= subPipelineCounter]_vars

\* Two lookup calls have generated four default names.
C18_Witness ==
    /\ last.op = "lookup"
    /\ Len(synthesized) = 4
    /\ subPipelineCounter = 4

\* C19: the sequence build() returns contains every stage the builder holds,
\* those of the sub-pipelines that were not spliced included.
C19_BuildCombinesAll ==
    \A n \in DOMAIN subPipeline :
        Range(subPipeline[n]) \subseteq Range(build(State).ret.stages)

\* C20: on a builder holding entries for two different names, matchIf called
\* with these two names and null as its third name completes without error,
\* and the build() that follows returns a sequence holding the conditional
\* stage.
C20_ReadmeExample ==
    \A c \in PlainNames, t \in PlainNames :
        (c # t /\ {c, t} \subseteq DOMAIN subPipeline) =>
            LET r == matchIf(State, c, t, NullKey, UNDEFINED)
                built == build(StateOf(r)).ret.stages
            IN /\ r.outcome = "ok"
               /\ \E i \in DOMAIN built : IsCond(built[i])

\* C21: appendSubPipeline() called without an argument leaves an empty
\* registry and a main pipeline holding every stage the sub-pipelines held.
C21_AppendAllAndClear ==
    LET r == appendSubPipeline(State, UNDEFINED) IN
    /\ r.outcome = "ok"
    /\ DOMAIN r.subPipeline = {}
    /\ \A n \in DOMAIN subPipeline :
        Range(subPipeline[n]) \subseteq Range(r.pipeline)


\* Case lists of up to two cases, in every order and with repetitions.
SwitchCases == {[caseCondition |-> "c1", then |-> "t1"],
                [caseCondition |-> "c2", then |-> "t2"]}
SwitchCaseLists ==
    {<<>>} \cup {<<a>> : a \in SwitchCases}
    \cup {<<a, b>> : a \in SwitchCases, b \in SwitchCases}

\* C22: matchSwitch(switchField, cases), called for the main pipeline or an
\* ordinary target name, appends exactly one stage to its target; the stage
\* has as many branches as there are cases, branch i being case i (its
\* condition and its then-value), and its default is null.
C22_SwitchBranches ==
    \A f \in Fields, cs \in SwitchCaseLists, t \in OrdinaryTargets :
        LET r == matchSwitch(State, f, cs, t)
            before == TargetSeq(State, t)
            after == TargetSeq(StateOf(r), t)
            st == after[Len(after)]
        IN /\ r.outcome = "ok"
           /\ Len(after) = Len(before) + 1
           /\ IsPrefix(before, after)
           /\ st.op = "$addFields" /\ st.field = f
           /\ Len(st.branches) = Len(cs)
           /\ \A i \in 1..Len(cs) :
                /\ st.branches[i].case = cs[i].caseCondition
                /\ st.branches[i].then = cs[i].then
           /\ st.default = "null"

\* matchSwitch has appended a stage of two different branches behind a stage
\* of another kind.
C22_Witness ==
    /\ last.op = "matchSwitch" /\ last.outcome = "ok"
    /\ Len(pipeline) = 2
    /\ pipeline[1].op = "$match"
    /\ pipeline[2].op = "$addFields"
    /\ Len(pipeline[2].branches) = 2
    /\ pipeline[2].branches[1] # pipeline[2].branches[2]

\* C23: the stage a successful matchIf emits has as its if, then and else
\* branches the conjunctions of the stage lists stored, when matchIf was
\* called, under its first, second and third name.
C23_MatchIfEmbeds ==
    \A c \in MatchIfNames, t \in MatchIfNames, f \in MatchIfNames,
       n \in MatchIfTargets :
        LET r == matchIf(State, c, t, f, n)
            after == TargetSeq(StateOf(r), n)
            st == after[Len(after)]
        IN r.outcome = "ok" =>
            /\ {c, t, f} \subseteq DOMAIN subPipeline
            /\ IsCond(st)
            /\ st.if = And(ArrayOf(subPipeline[c]))
            /\ st.then = And(ArrayOf(subPipeline[t]))
            /\ st.else = And(ArrayOf(subPipeline[f]))

\* Field lists of up to two fields, in every order and with repetitions,
\* and the lists the calls are made with.
ListFields == {"author", "title"}
AllFieldLists ==
    {<<>>} \cup {<<a>> : a \in ListFields}
    \cup {<<a, b>> : a \in ListFields, b \in ListFields}
    \cup FieldLists

\* C24: unwind(fields), called for the main pipeline or an ordinary target
\* name, appends one $unwind stage per field of the list, in list order,
\* whether the field declares a reference or not; the path of the stage of a
\* field is '$' followed by the `as` of the $lookup stage of that field.
C24_UnwindPerField ==
    \A fs \in AllFieldLists, t \in OrdinaryTargets :
        LET r == unwind(State, fs, t)
            before == TargetSeq(State, t)
            after == TargetSeq(StateOf(r), t)
        IN /\ r.outcome = "ok"
           /\ IsPrefix(before, after)
           /\ Len(after) = Len(before) + Len(fs)
           /\ \A i \in 1..Len(fs) :
                LET st == after[Len(before) + i] IN
                /\ st.op = "$unwind"
                /\ st.path = "$" \o lookupStage(fs[i]).as
                /\ st.path = "$" \o fs[i] \o "Details"

\* unwind of three fields, one of them without a reference, has appended
\* three stages in the order of the list.
C24_Witness ==
    /\ last.op = "unwind" /\ last.outcome = "ok"
    /\ Len(pipeline) = 3
    /\ pipeline[1].op = "$unwind" /\ pipeline[1].path = "$editorDetails"
    /\ pipeline[2].op = "$unwind" /\ pipeline[2].path = "$titleDetails"
    /\ pipeline[3].op = "$unwind" /\ pipeline[3].path = "$authorDetails"

\* C25: in every state, for every field, value and target (absent or any
\* string), matchLessThan(field, value, name) ends as, and leaves the main
\* pipeline and the registry as, matchRange(field, '$lt', value, name) does,
\* and matchGreaterThan as matchRange(field, '$gt', value, name); when the
\* call succeeds, the stage added is the range stage of that operator.
C25_RangeWrappers ==
    \A f \in Fields, v \in Values, t \in Targets :
        LET lt == matchLessThan(State, f, v, t)
            gt == matchGreaterThan(State, f, v, t)
        IN /\ lt = matchRange(State, f, "$lt", v, t)
           /\ gt = matchRange(State, f, "$gt", v, t)
           /\ (lt.outcome = "ok" /\ t \in {UNDEFINED} \cup PlainNames) =>
                LET after == TargetSeq(StateOf(lt), t) IN
                after[Len(after)] =
                    [op |-> "$match", field |-> f, operator |-> "$lt", value |-> v]
           /\ (gt.outcome = "ok" /\ t \in {UNDEFINED} \cup PlainNames) =>
                LET after == TargetSeq(StateOf(gt), t) IN
                after[Len(after)] =
                    [op |-> "$match", field |-> f, operator |-> "$gt", value |-> v]

\* matchLessThan has appended its stage behind the stage of a
\* matchGreaterThan.
C25_Witness ==
    /\ last.op = "matchLessThan" /\ last.outcome = "ok"
    /\ Len(pipeline) = 2
    /\ pipeline[1] = [op |-> "$match", field |-> "author", operator |-> "$gt",
                      value |-> "v"]
    /\ pipeline[2] = [op |-> "$match", field |-> "title", operator |-> "$lt",
                      value |-> "v"]

\* The calls of the eight single-stage operations: method and arguments.
SimpleCalls ==
    {[op |-> "matchEqual", f |-> f, o |-> "", v |-> v] :
        f \in Fields, v \in Values}
    \cup {[op |-> "matchRange", f |-> f[1], o |-> f[2], v |-> v] :
        f \in Fields \X RangeOperators, v \in Values}
    \cup {[op |-> m, f |-> "", o |-> "", v |-> v] :
        m \in {"group", "project", "sort", "skip", "limit", "facet"}, v \in Values}

\* The call c made on the builder state s with target t.
Apply(s, c, t) ==
    CASE c.op = "matchEqual" -> matchEqual(s, c.f, c.v, t)
      [] c.op = "matchRange" -> matchRange(s, c.f, c.o, c.v, t)
      [] c.op = "group" -> group(s, c.v, t)
      [] c.op = "project" -> project(s, c.v, t)
      [] c.op = "sort" -> sort(s, c.v, t)
      [] c.op = "skip" -> skip(s, c.v, t)
      [] c.op = "limit" -> limit(s, c.v, t)
      [] c.op = "facet" -> facet(s, c.v, t)

\* The state of a builder just constructed.
Fresh == [pipeline |-> <<>>, subPipeline |-> [n \in {} |-> <<>>]]

\* C26: each of matchEqual, matchRange, group, project, sort, skip, limit and
\* facet, called for the main pipeline or an ordinary target name, appends
\* exactly one stage to its target, and the stage is the one the same call
\* appends on a builder just constructed, whatever the target: it depends on
\* the arguments only, not on the state the builder is in.
C26_StageOfArguments ==
    \A c \in SimpleCalls, t \in OrdinaryTargets :
        LET r == Apply(State, c, t)
            before == TargetSeq(State, t)
            after == TargetSeq(StateOf(r), t)
        IN /\ r.outcome = "ok"
           /\ Len(after) = Len(before) + 1
           /\ IsPrefix(before, after)
           /\ <<after[Len(after)]>> = Apply(Fresh, c, UNDEFINED).pipeline
           /\ <<after[Len(after)]>> = TargetSeq(StateOf(Apply(Fresh, c, t)), t)

\* The same group call made twice, on an empty builder and on the builder the
\* first call left, has appended two equal stages.
C26_Witness ==
    /\ last.op = "group" /\ last.outcome = "ok"
    /\ Len(pipeline) = 2
    /\ pipeline[1].op = "$group"
    /\ pipeline[1] = pipeline[2]

\* C27: a call on one builder leaves the main pipeline, the registry and the
\* counter of the other builder as they were, the two builders using the
\* same sub-pipeline names.
C27_NoSharedState ==
    [][\A i \in Builders :
          ("on" \in DOMAIN last' /\ last'.on # i) => View(i)' = View(i)]_vars

\* Both builders have routed a stage to the same name, and each holds its
\* own stage list under it.
C27_Witness ==
    /\ "a" \in DOMAIN View(1).subPipeline
    /\ "a" \in DOMAIN View(2).subPipeline
    /\ View(1).subPipeline["a"] # View(2).subPipeline["a"]

\* Whether the entry of name B is in the result r with the stage list it has
\* in the registry sp.
Keeps(r, sp, B) == B \in DOMAIN r.subPipeline /\ r.subPipeline[B] = sp[B]

\* C28: an entry of the registry is still there, with the same stage list,
\* after every stage operation targeting another name or the main pipeline,
\* after appendSubPipeline(A) and getAndRemoveSubPipeline(A) with A another
\* name, after a matchIf call that does not pass its name, and after build().
C28_EntryPersists ==
    \A B \in DOMAIN subPipeline :
        /\ \A t \in Targets \ {B} :
              /\ \A c \in StageCalls(State, t) : Keeps(c.r, subPipeline, B)
              /\ \A fs \in FieldLists : Keeps(lookup(State, fs, t), subPipeline, B)
        /\ \A A \in NameStrings \ {B} :
              /\ Keeps(appendSubPipeline(State, A), subPipeline, B)
              /\ Keeps(getAndRemoveSubPipeline(State, A), subPipeline, B)
        /\ \A c \in MatchIfNames \ {B}, t \in MatchIfNames \ {B},
              f \in MatchIfNames \ {B}, n \in MatchIfTargets \ {B} :
              Keeps(matchIf(State, c, t, f, n), subPipeline, B)
        /\ Keeps(build(State), subPipeline, B)

\* Entry b has outlived the splice of entry a into the main pipeline.
C28_Witness ==
    /\ last.op = "appendSubPipeline" /\ last.outcome = "ok"
    /\ Len(pipeline) = 1
    /\ DOMAIN subPipeline = {"b"} /\ Len(subPipeline["b"]) = 2

\* C29: all the stages of a lookup call are in its target, as one block
\* starting where the target ended when the call was made, from the moment
\* the call has returned: before anything the caller invokes next, awaiting
\* the promise or not, and when the promise resolves.
C29_LookupBlock ==
    \A k \in DOMAIN tasks :
        LET seq == TargetSeq(State, tasks[k].target)
            from == tasks[k].start
            n == Len(tasks[k].stages)
        IN /\ Len(seq) >= from + n
           /\ SubSeq(seq, from + 1, from + n) = tasks[k].stages

\* A lookup of two relations was not awaited: a matchEqual invoked before its
\* promise resolved has its stage after the two join stages.
C29_Witness ==
    /\ last.op = "lookup.then"
    /\ Len(tasks) = 1 /\ tasks[1].resolved /\ Len(tasks[1].stages) = 2
    /\ Len(pipeline) = 3
    /\ pipeline[1].op = "$lookup" /\ pipeline[2].op = "$lookup"
    /\ pipeline[3].op = "$match"

\* The stage calls routed to name n on the state s, lookup included.
RoutedCalls(s, n) ==
    StageCalls(s, n)
    \cup {Call1(lookup(s, fs, n), lookupStages(fs)) : fs \in FieldLists}

\* After the entry of n was consumed leaving state s, stages routed to n
\* start a new entry, and a later appendSubPipeline(n) appends these only.
FreshAfter(s, n) ==
    /\ n \notin DOMAIN s.subPipeline
    /\ appendSubPipeline(s, n).pipeline = s.pipeline
    /\ \A c \in RoutedCalls(s, n) :
          c.stages # <<>> =>
              LET again == appendSubPipeline(StateOf(c.r), n) IN
              /\ c.r.pipeline = s.pipeline
              /\ c.r.subPipeline[n] = c.stages
              /\ again.pipeline = s.pipeline \o c.stages
              /\ n \notin DOMAIN again.subPipeline

\* C30: a stage routed to a name reaches the main pipeline at most once:
\* splicing an entry appends its stages and removes it from the registry, so
\* that no stage is both spliced and still stored; after the entry was
\* spliced or retrieved, stages routed to the name start a new entry, and
\* the next appendSubPipeline of the name appends only those.
C30_SplicedOnce ==
    \A n \in DOMAIN subPipeline :
        LET spliced == appendSubPipeline(State, n)
            retrieved == getAndRemoveSubPipeline(State, n)
        IN /\ spliced.pipeline = pipeline \o subPipeline[n]
           /\ FreshAfter(StateOf(spliced), n)
           /\ retrieved.pipeline = pipeline
           /\ FreshAfter(StateOf(retrieved), n)

\* A stage was spliced into the main pipeline, and the name holds a new entry
\* with another stage only.
C30_Witness ==
    /\ last.op = "matchEqual"
    /\ Len(pipeline) = 1
    /\ DOMAIN subPipeline = {"a"}
    /\ Len(subPipeline["a"]) = 1 /\ subPipeline["a"][1] # pipeline[1]

\* Field lists without a declared relation.
PlainFieldLists == {fs \in AllFieldLists : \A i \in DOMAIN fs : ~HasRef(fs[i])}

\* C31: every entry of the registry holds at least one stage; lookup with a
\* name and fields without a declared relation, and unwind with a name and
\* no field, leave the registry as it is.
C31_EntriesNonEmpty ==
    /\ \A n \in DOMAIN subPipeline : subPipeline[n] # <<>>
    /\ \A t \in NameStrings :
          /\ \A fs \in PlainFieldLists :
                lookup(State, fs, t).subPipeline = subPipeline
          /\ unwind(State, <<>>, t).subPipeline = subPipeline

\* An unwind call that appended nothing was made while the registry held one
\* entry with one match stage.
C31_Witness ==
    /\ last.op = "unwind" /\ last.outcome = "ok"
    /\ pipeline = <<>>
    /\ DOMAIN subPipeline = {"a"}
    /\ Len(subPipeline["a"]) = 1 /\ subPipeline["a"][1].op = "$match"

\* C32: when matchIf succeeds with a target that is one of the three names it
\* consumes, the entry of that name is afterwards the new conditional stage
\* alone, which is none of the stages the entry held before the call.
C32_TargetConsumed ==
    \A c \in MatchIfNames, t \in MatchIfNames, f \in MatchIfNames :
        \A n \in {c, t, f} :
            LET r == matchIf(State, c, t, f, n) IN
            r.outcome = "ok" =>
                /\ n \in DOMAIN r.subPipeline
                /\ r.subPipeline[n] =
                       <<condStage(Read(subPipeline, c), Read(subPipeline, t),
                                   Read(subPipeline, f))>>
                /\ r.subPipeline[n][1] \notin Range(Own(subPipeline, n))

\* matchIf has consumed three stored lists and put its conditional stage
\* under the name of one of them.
C32_Witness ==
    /\ last.op = "matchIf" /\ last.outcome = "ok"
    /\ pipeline = <<>>
    /\ DOMAIN subPipeline = {"a"}
    /\ Len(subPipeline["a"]) = 1 /\ IsCond(subPipeline["a"][1])
    /\ subPipeline["a"][1].if.and.tag = "array"
    /\ subPipeline["a"][1].then.and.tag = "array"
    /\ subPipeline["a"][1].else.and.tag = "array"

\* C33: an array handed out stays as it was: the list getAndRemoveSubPipeline
\* returned and the three branches matchIf embedded in its conditional stage
\* hold, after every later stage operation routed to the consumed names and
\* every later splice, the stages they held when they were handed out.
C33_PlacedImmutable ==
    \A e \in refs.held : refs.cells[e.ref] = e.stages

\* A conditional stage is in the main pipeline, and the name of its first
\* branch has been routed to again: it has a new array with another stage.
C33_Witness ==
    \E e \in refs.held :
        /\ refs.pipeline # <<>>
        /\ "if" \in DOMAIN refs.pipeline[1]
        /\ refs.pipeline[1].if = e.ref
        /\ e.name \in DOMAIN refs.registry
        /\ refs.registry[e.name] # e.ref
        /\ refs.cells[refs.registry[e.name]] # <<>>
        /\ e.stages # <<>>
====
